---- MODULE Spec2Model ----
(***************************************************************************)
(* Amazon purchase agent (src/src/index.ts): product-id extraction, the    *)
(* product locator, the request-building call sites purchaseProduct,       *)
(* handleAmazonPurchase and directPurchase, the chat entry point           *)
(* handleAmazonPurchaseIntent, and the calls they make to the external     *)
(* tools (buy_token, get_token_info_by_symbol).                            *)
(*                                                                         *)
(* Strings the code inspects character by character (URLs, shipping        *)
(* addresses, product ids) are sequences of one-character strings.         *)
(* Error messages are sequences of words (String.includes on a message is  *)
(* a contiguous-subsequence test on its words).  Strings the code only     *)
(* passes through (contact name, e-mail, wallet address) are opaque.       *)
(***************************************************************************)
EXTENDS Integers, Sequences, FiniteSets, TLC

VARIABLES
    fn,             \* the exported function this run is a call of
    pc,             \* position of the run inside that function
    amazonUrl,      \* parameter amazonUrl
    purchaseInfo,   \* parameter purchaseInfo: {name, shippingAddress, email}
    tools,          \* the tools object (parameter, or from initializeGoatTools)
    walletAddress,  \* payer address (parameter, or from initializeGoatTools)
    productId,      \* parameter / local productId
    productLocator, \* local productLocator
    addressParts,   \* local addressParts
    purchaseParams, \* the request object built for buy_token
    order,          \* the value buy_token.execute resolved with
    error,          \* the value caught by the inner catch of handleAmazonPurchase
    calls,          \* invocations of external tools made so far, in order
    result,         \* value the call resolved with
    thrown,         \* value the call rejected with
    tokenInfo,      \* the value get_token_info_by_symbol.execute resolved with
    userInput,      \* parameter userInput of handleAmazonPurchaseIntent
    response        \* the message handleAmazonPurchaseIntent resolved with

vars == <<fn, pc, amazonUrl, purchaseInfo, tools, walletAddress, productId,
          productLocator, addressParts, purchaseParams, order, error, calls, result,
          thrown, tokenInfo, userInput, response>>

-----------------------------------------------------------------------------
(* Bounds of the explored inputs *)

\* URLs are a host followed by at most this many path pieces
MaxUrlPieces == 4
\* shipping addresses have at most this many ", "-separated parts
MaxParts == 6

-----------------------------------------------------------------------------
(* JavaScript values *)

\* the value undefined where a string is expected (array index out of range)
Undefined == <<"undefined">>
\* no value yet
None == [type |-> "none"]

\* x || y on strings: undefined and the empty string are falsy
OrElse(x, y) == IF x = Undefined \/ x = <<>> THEN y ELSE x

\* arr[i] with JavaScript's 0-based index
At(arr, i) == IF i + 1 \in 1..Len(arr) THEN arr[i + 1] ELSE Undefined

\* s.substring(from, to) on 1-based inclusive positions
Slice(s, from, to) == SubSeq(s, from, to)

\* sub occurs in s at 1-based position i
OccursAt(s, sub, i) ==
    /\ i >= 1
    /\ i + Len(sub) - 1 <= Len(s)
    /\ \A k \in 1..Len(sub) : s[i + k - 1] = sub[k]

\* String.prototype.includes
Includes(s, sub) == \E i \in 1..(Len(s) + 1) : OccursAt(s, sub, i)

\* String.prototype.split with a non-empty string separator
RECURSIVE Split(_, _)
Split(s, sep) ==
    LET hits == {i \in 1..Len(s) : OccursAt(s, sep, i)}
    IN  IF hits = {} THEN <<s>>
        ELSE LET i == CHOOSE h \in hits : \A g \in hits : h <= g
             IN  <<Slice(s, 1, i - 1)>> \o Split(Slice(s, i + Len(sep), Len(s)), sep)

\* Array.prototype.join
RECURSIVE Join(_, _)
Join(parts, sep) ==
    IF Len(parts) = 0 THEN <<>>
    ELSE IF Len(parts) = 1 THEN parts[1]
    ELSE parts[1] \o sep \o Join(Tail(parts), sep)

RECURSIVE Concat(_)
Concat(pieces) == IF pieces = <<>> THEN <<>> ELSE Head(pieces) \o Concat(Tail(pieces))

-----------------------------------------------------------------------------
(* extractAmazonProductId and formatProductLocator *)

\* the character class [A-Z0-9]
UpperAlnum ==
    {"A", "B", "C", "D", "E", "F", "G", "H", "I", "J", "K", "L", "M", "N", "O", "P",
     "Q", "R", "S", "T", "U", "V", "W", "X", "Y", "Z",
     "0", "1", "2", "3", "4", "5", "6", "7", "8", "9"}

\* the quantifier {10} of both regular expressions
AsinLen == 10

DpMarker == <<"/", "d", "p", "/">>
GpMarker == <<"/", "g", "p", "/", "p", "r", "o", "d", "u", "c", "t", "/">>

TerminatorAt_anything(url, i) == TRUE

\* the group (\/|\?|$) at 1-based position i of url
TerminatorAt(url, i) == i = Len(url) + 1 \/ (i <= Len(url) /\ url[i] \in {"/", "?"})

\* the regular expression <marker>([A-Z0-9]{10})(\/|\?|$) matches url at position i
RegexMatchesAt(url, marker, i) ==
    /\ OccursAt(url, marker, i)
    /\ i + Len(marker) + AsinLen - 1 <= Len(url)
    /\ \A k \in 0..(AsinLen - 1) : url[i + Len(marker) + k] \in UpperAlnum
    /\ TerminatorAt(url, i + Len(marker) + AsinLen)

\* url.match(regex)?.[1]: capture group 1 of the leftmost match, or undefined
RegexGroup1(url, marker) ==
    LET hits == {i \in 1..Len(url) : RegexMatchesAt(url, marker, i)}
    IN  IF hits = {} THEN Undefined
        ELSE LET i == CHOOSE h \in hits : \A g \in hits : h <= g
             IN  Slice(url, i + Len(marker), i + Len(marker) + AsinLen - 1)

Error(msg) == [type |-> "Error", msgKind |-> "string", message |-> msg]
TypeError(msg) == [type |-> "TypeError", msgKind |-> "string", message |-> msg]

ExtractionError ==
    Error(<<"Could", "not", "extract", "product", "ID", "from", "Amazon", "URL">>)

\* extractAmazonProductId preferring the /gp/product/ match
extractAmazonProductId_gpFirst(url) ==
    LET dpMatch == RegexGroup1(url, DpMarker)
        gpMatch == RegexGroup1(url, GpMarker)
        asin    == OrElse(gpMatch, dpMatch)
    IN  IF asin = Undefined \/ asin = <<>>
        THEN [ok |-> FALSE, value |-> <<>>, error |-> ExtractionError]
        ELSE [ok |-> TRUE, value |-> asin, error |-> None]

\* [ok, value]: the returned ASIN, or the thrown error
extractAmazonProductId(url) ==
    LET dpMatch == RegexGroup1(url, DpMarker)
        gpMatch == RegexGroup1(url, GpMarker)
        asin    == OrElse(dpMatch, gpMatch)
    IN  IF asin = Undefined \/ asin = <<>>
        THEN [ok |-> FALSE, value |-> <<>>, error |-> ExtractionError]
        ELSE [ok |-> TRUE, value |-> asin, error |-> None]

AmazonPrefix == <<"a", "m", "a", "z", "o", "n", ":">>

\* formatProductLocator returning the bare product id
formatProductLocator_bare(id) == id

formatProductLocator(id) == AmazonPrefix \o id

-----------------------------------------------------------------------------
(* URL inputs *)

Host == <<"h", "t", "t", "p", "s", ":", "/", "/", "w", "w", "w", ".",
          "a", "m", "a", "z", "o", "n", ".", "c", "o", "m">>
Asin1 == <<"B", "0", "8", "S", "V", "Z", "7", "7", "5", "L">>
Asin2 == <<"B", "0", "C", "J", "C", "K", "8", "L", "C", "J">>
HalfAsin == <<"B", "0", "8", "S", "V">>
\* the path that follows the product id in the URL of the direct purchase
RefTwister ==
    <<"/", "r", "e", "f", "=", "t", "w", "i", "s", "t", "e", "r", "_",
      "B", "0", "D", "3", "T", "K", "8", "M", "M", "P">>

UrlPieces ==
    {DpMarker, GpMarker, Asin1, Asin2, HalfAsin, <<"x">>, <<"/">>, <<"?">>, <<"#">>}

PieceSeqs == UNION {[1..n -> UrlPieces] : n \in 0..MaxUrlPieces}

Urls == {Host \o Concat(ps) : ps \in PieceSeqs}

-----------------------------------------------------------------------------
(* Address parsing and request assembly *)

AddressSep == <<",", " ">>
US == <<"U", "S">>

hasTooFewParts_offByOne(parts) == Len(parts) < 3

\* addressParts.length < 4
hasTooFewParts(parts) == Len(parts) < 4

street(parts) == At(parts, 1)
city(parts) == At(parts, 2)
stateZip(parts) == Split(At(parts, 3), <<" ">>)
state(parts) == At(stateZip(parts), 0)
postalCode_lastToken(parts) == At(stateZip(parts), Len(stateZip(parts)) - 1)

postalCode(parts) == At(stateZip(parts), 1)
country_noDefault(parts) == At(parts, 4)

\* addressParts[4] || "US"
country(parts) == OrElse(At(parts, 4), US)

AddressFormatError ==
    Error(<<"Invalid", "shipping", "address", "format.", "Expected:",
            "Name,", "Street,", "City,", "State", "ZIP,", "Country">>)
UnsupportedCountryError ==
    Error(<<"Only", "US", "shipping", "addresses", "are", "currently", "supported">>)
ToolNotAvailableError ==
    Error(<<"buy_token", "tool", "not", "available.", "Please", "check", "the",
            "plugin", "configuration.">>)
ToolsNotInitializedError == Error(<<"Tools", "not", "properly", "initialized">>)
ToolNotFoundError ==
    Error(<<"buy_token", "tool", "not", "found", "in", "the", "available", "tools">>)
\* Object.keys(null)
KeysOfNullError ==
    TypeError(<<"Cannot", "convert", "undefined", "or", "null", "to", "object">>)
\* tools['buy_token'](...) where the tool is not a function
NotAFunctionError == TypeError(<<"tools.buy_token", "is", "not", "a", "function">>)
\* order.id where order is null or undefined
ReadIdError ==
    TypeError(<<"Cannot", "read", "properties", "of", "undefined", "(reading", "'id')">>)
\* error.message where error is null or undefined
ReadMessageError ==
    TypeError(<<"Cannot", "read", "properties", "of", "undefined", "(reading",
                "'message')">>)
\* error.message.includes where the message is no string
IncludesNotAFunctionError ==
    TypeError(<<"error.message.includes", "is", "not", "a", "function">>)

UsdcOnBase == "0x833589fCD6eDb6E08f4c7C32D4f71b54bdA02913"

physicalAddress_parsedCountry(info, parts) ==
    [name       |-> info.name,
     line1      |-> street(parts),
     city       |-> city(parts),
     state      |-> state(parts),
     postalCode |-> postalCode(parts),
     country    |-> country(parts)]

physicalAddress(info, parts) ==
    [name       |-> info.name,
     line1      |-> street(parts),
     city       |-> city(parts),
     state      |-> state(parts),
     postalCode |-> postalCode(parts),
     country    |-> US]

\* the object literal purchaseProduct passes to tools['buy_token']
purchaseProductParams(info, parts, wallet, id) ==
    [recipient |-> [email |-> info.email, physicalAddress |-> physicalAddress(info, parts)],
     payment   |-> [method |-> "base", currency |-> "usdc", payerAddress |-> wallet],
     lineItems |-> <<[productLocator |-> formatProductLocator(id)]>>]

\* the object purchaseParams of handleAmazonPurchase
handlePurchaseParams(info, parts, wallet, locator) ==
    [recipient |-> [email |-> info.email, physicalAddress |-> physicalAddress(info, parts)],
     payment   |-> [method |-> "base", currency |-> "usdc", payerAddress |-> wallet,
                    chain |-> "base", tokenAddress |-> UsdcOnBase],
     lineItems |-> <<[productLocator |-> locator]>>]

BuyTokenCall(params) == [tool |-> "buy_token", args |-> params]
TokenInfoCall == [tool |-> "get_token_info_by_symbol", args |-> [symbol |-> "USDC"]]

-----------------------------------------------------------------------------
(* Inputs of the call sites and outcomes of the external tools *)

JoyceLee == <<"J", "o", "y", "c", "e", " ", "L", "e", "e">>
FR == <<"F", "R">>

\* the values tried for the part at 0-based position i of an address
PartChoices(i) ==
    CASE i = 0 -> {JoyceLee, <<"X">>}
      [] i = 1 -> {<<"1", " ", "S", "E", " ", "3", "r", "d", " ", "A", "v", "e">>}
      [] i = 2 -> {<<"M", "i", "a", "m", "i">>}
      [] i = 3 -> {<<"F", "L", " ", "3", "3", "1", "3", "1">>,
                   <<"F", "L", " ", " ", "3", "3", "1", "3", "1">>,
                   <<" ", "F", "L", " ", "3", "3", "1", "3", "1">>,
                   <<"F", "L", " ", "3", "3", "1", "3", "1", " ", "9">>,
                   <<"F", "L">>,
                   <<>>}
      [] i = 4 -> {US, FR, <<"u", "s">>, <<>>}
      [] OTHER -> {<<"X">>}

RECURSIVE PartSeqsOfLen(_)
PartSeqsOfLen(n) ==
    IF n = 0 THEN {<<>>}
    ELSE {Append(ps, p) : ps \in PartSeqsOfLen(n - 1), p \in PartChoices(n - 1)}

Addresses == {Join(ps, AddressSep) : ps \in UNION {PartSeqsOfLen(n) : n \in 0..MaxParts}}

PurchaseInfos ==
    [name : {"Joyce Lee", "Bob"}, shippingAddress : Addresses,
     email : {"crossmintdemo@gmail.com"}]

Wallets == {"0xPayer"}

ToolNames == {"buy_token", "get_token_info_by_symbol"}

\* tools === null / undefined
NullTools == [kind |-> "null", keys |-> {}, shape |-> "none"]
\* a tools object: its keys, and whether its entries are functions or objects
\* with an execute method (what getOnChainTools returns)
ToolsObject(keys, shape) == [kind |-> "object", keys |-> keys, shape |-> shape]

\* the tools object returned by initializeGoatTools
SdkTools == {ToolsObject(ks, "executable") : ks \in SUBSET ToolNames}
\* the any-typed tools parameter of purchaseProduct
ToolsArgs ==
    {NullTools} \cup {ToolsObject(ks, sh) : ks \in SUBSET ToolNames,
                                            sh \in {"function", "executable"}}

\* URLs given to handleAmazonPurchase
HapUrls ==
    {Host \o DpMarker \o Asin1,
     Host \o GpMarker \o Asin2 \o <<"?">>,
     Host \o DpMarker \o Asin1 \o <<"#">>,
     Host \o <<"/">> \o HalfAsin,
     Host \o DpMarker \o Asin2 \o RefTwister}

\* values a tool can resolve with: objects by their own keys, or undefined / null
Nullish == [type |-> "nullish", keys |-> {}]
Orders ==
    {[type |-> "object", keys |-> {"id"}],
     [type |-> "object", keys |-> {"order", "txId"}],
     [type |-> "object", keys |-> {}],
     Nullish}
\* values get_token_info_by_symbol can resolve with: an object carrying a
\* contractAddress, or undefined / null
TokenInfos ==
    {[type |-> "object", keys |-> {"contractAddress", "decimals"}, contractAddress |-> a] :
        a \in {UsdcOnBase, "0xOtherToken"}} \cup {Nullish}

InsufficientFunds == <<"Insufficient", "funds">>

\* values a tool or initializeGoatTools can reject with
NullishThrown == [type |-> "nullish", msgKind |-> "absent", message |-> <<>>]
Rejections ==
    {Error(<<"Insufficient", "funds", "for", "order">>),
     Error(<<"insufficient", "funds">>),
     Error(<<"Network", "error">>),
     Error(<<>>),
     [type |-> "object", msgKind |-> "other", message |-> <<>>],
     NullishThrown}

InitRejections == {Error(<<"invalid", "private", "key">>), Error(<<"Network", "error">>)}

-----------------------------------------------------------------------------
(* The state before any call *)

Init ==
    /\ fn = "none"
    /\ pc = "idle"
    /\ amazonUrl = <<>>
    /\ purchaseInfo = None
    /\ tools = NullTools
    /\ walletAddress = ""
    /\ productId = Undefined
    /\ productLocator = Undefined
    /\ addressParts = <<>>
    /\ purchaseParams = None
    /\ order = None
    /\ error = None
    /\ calls = <<>>
    /\ result = None
    /\ thrown = None
    /\ tokenInfo = None
    /\ userInput = None
    /\ response = None

\* the call rejects with e
Throw(e) == thrown' = e /\ pc' = "done"

-----------------------------------------------------------------------------
(* purchaseProduct(tools, productId, walletAddress, purchaseInfo) *)

\* purchaseProduct with the buy_token presence check ahead of the address checks
purchaseProduct_toolCheckFirst(t, id, wallet, info) ==
    LET parts == Split(info.shippingAddress, AddressSep)
        req   == purchaseProductParams(info, parts, wallet, id)
    IN
    /\ pc = "idle"
    /\ fn' = "purchaseProduct"
    /\ tools' = t
    /\ productId' = id
    /\ walletAddress' = wallet
    /\ purchaseInfo' = info
    /\ addressParts' = parts
    /\ UNCHANGED <<amazonUrl, productLocator, order, error, result>>
    /\ IF t.kind # "object"
       THEN Throw(KeysOfNullError) /\ UNCHANGED <<purchaseParams, calls>>
       ELSE IF "buy_token" \notin t.keys
       THEN Throw(ToolNotAvailableError) /\ UNCHANGED <<purchaseParams, calls>>
       ELSE IF hasTooFewParts(parts)
       THEN Throw(AddressFormatError) /\ UNCHANGED <<purchaseParams, calls>>
       ELSE IF country(parts) # US
       THEN Throw(UnsupportedCountryError) /\ UNCHANGED <<purchaseParams, calls>>
       ELSE IF t.shape # "function"
       THEN Throw(NotAFunctionError) /\ purchaseParams' = req /\ UNCHANGED calls
       ELSE /\ purchaseParams' = req
            /\ calls' = Append(calls, BuyTokenCall(req))
            /\ pc' = "checkout"
            /\ UNCHANGED thrown
    /\ UNCHANGED <<tokenInfo, userInput, response>>

\* the function body up to the await of tools['buy_token'](...)
purchaseProduct(t, id, wallet, info) ==
    LET parts == Split(info.shippingAddress, AddressSep)
        req   == purchaseProductParams(info, parts, wallet, id)
    IN
    /\ pc = "idle"
    /\ fn' = "purchaseProduct"
    /\ tools' = t
    /\ productId' = id
    /\ walletAddress' = wallet
    /\ purchaseInfo' = info
    /\ addressParts' = parts
    /\ UNCHANGED <<amazonUrl, productLocator, order, error, result>>
    /\ IF hasTooFewParts(parts)
       THEN Throw(AddressFormatError) /\ UNCHANGED <<purchaseParams, calls>>
       ELSE IF country(parts) # US
       THEN Throw(UnsupportedCountryError) /\ UNCHANGED <<purchaseParams, calls>>
       ELSE IF t.kind # "object"
       THEN Throw(KeysOfNullError) /\ UNCHANGED <<purchaseParams, calls>>
       ELSE IF "buy_token" \notin t.keys
       THEN Throw(ToolNotAvailableError) /\ UNCHANGED <<purchaseParams, calls>>
       ELSE IF t.shape # "function"
       THEN Throw(NotAFunctionError) /\ purchaseParams' = req /\ UNCHANGED calls
       ELSE /\ purchaseParams' = req
            /\ calls' = Append(calls, BuyTokenCall(req))
            /\ pc' = "checkout"
            /\ UNCHANGED thrown
    /\ UNCHANGED <<tokenInfo, userInput, response>>

\* tools['buy_token'](...) resolves: return result
purchaseProductToolReturns(v) ==
    /\ fn = "purchaseProduct"
    /\ pc = "checkout"
    /\ order' = v
    /\ result' = v
    /\ pc' = "done"
    /\ UNCHANGED <<fn, amazonUrl, purchaseInfo, tools, walletAddress, productId,
                   productLocator, addressParts, purchaseParams, error, calls, thrown>>
    /\ UNCHANGED <<tokenInfo, userInput, response>>

\* tools['buy_token'](...) rejects: nothing catches it
purchaseProductToolThrows(e) ==
    /\ fn = "purchaseProduct"
    /\ pc = "checkout"
    /\ Throw(e)
    /\ UNCHANGED <<fn, amazonUrl, purchaseInfo, tools, walletAddress, productId,
                   productLocator, addressParts, purchaseParams, order, error, calls,
                   result>>
    /\ UNCHANGED <<tokenInfo, userInput, response>>

-----------------------------------------------------------------------------
(* handleAmazonPurchase(amazonUrl, purchaseInfo) *)

\* the call, up to the await of initializeGoatTools()
handleAmazonPurchase(url, info) ==
    /\ pc = "idle"
    /\ fn' = "handleAmazonPurchase"
    /\ amazonUrl' = url
    /\ purchaseInfo' = info
    /\ pc' = "initializeGoatTools"
    /\ UNCHANGED <<tools, walletAddress, productId, productLocator, addressParts,
                   purchaseParams, order, error, calls, result, thrown>>
    /\ UNCHANGED <<tokenInfo, userInput, response>>

\* initializeGoatTools() rejects: the outer catch re-throws
initializeGoatToolsThrows(e) ==
    /\ fn = "handleAmazonPurchase"
    /\ pc = "initializeGoatTools"
    /\ Throw(e)
    /\ UNCHANGED <<fn, amazonUrl, purchaseInfo, tools, walletAddress, productId,
                   productLocator, addressParts, purchaseParams, order, error, calls,
                   result>>
    /\ UNCHANGED <<tokenInfo, userInput, response>>

\* initializeGoatToolsReturns with the address parsed and checked before the
\* product id is extracted
initializeGoatToolsReturns_addressFirst(t, wallet) ==
    LET ext     == extractAmazonProductId(amazonUrl)
        locator == formatProductLocator(ext.value)
        parts   == Split(purchaseInfo.shippingAddress, AddressSep)
        req     == handlePurchaseParams(purchaseInfo, parts, wallet, locator)
    IN
    /\ fn = "handleAmazonPurchase"
    /\ pc = "initializeGoatTools"
    /\ tools' = t
    /\ walletAddress' = wallet
    /\ UNCHANGED <<fn, amazonUrl, purchaseInfo, order, error, result>>
    /\ addressParts' = parts
    /\ IF hasTooFewParts(parts)
       THEN /\ Throw(AddressFormatError)
            /\ UNCHANGED <<productId, productLocator, purchaseParams, calls>>
       ELSE IF ~ext.ok
       THEN /\ Throw(ext.error)
            /\ UNCHANGED <<productId, productLocator, purchaseParams, calls>>
       ELSE /\ productId' = ext.value
            /\ productLocator' = locator
            /\ purchaseParams' = req
            /\ IF t.kind # "object"
               THEN Throw(ToolsNotInitializedError) /\ UNCHANGED calls
               ELSE IF "buy_token" \notin t.keys
               THEN Throw(ToolNotFoundError) /\ UNCHANGED calls
               ELSE /\ calls' = Append(calls, BuyTokenCall(req))
                    /\ pc' = "checkout"
                    /\ UNCHANGED thrown
    /\ UNCHANGED <<tokenInfo, userInput, response>>

\* initializeGoatTools() resolves with {tools, walletAddress}: extraction, address
\* parsing, request assembly and the tool checks, up to the await of
\* buyTokenTool.execute(purchaseParams, ...)
initializeGoatToolsReturns(t, wallet) ==
    LET ext     == extractAmazonProductId(amazonUrl)
        locator == formatProductLocator(ext.value)
        parts   == Split(purchaseInfo.shippingAddress, AddressSep)
        req     == handlePurchaseParams(purchaseInfo, parts, wallet, locator)
    IN
    /\ fn = "handleAmazonPurchase"
    /\ pc = "initializeGoatTools"
    /\ tools' = t
    /\ walletAddress' = wallet
    /\ UNCHANGED <<fn, amazonUrl, purchaseInfo, order, error, result>>
    /\ IF ~ext.ok
       THEN /\ Throw(ext.error)
            /\ UNCHANGED <<productId, productLocator, addressParts, purchaseParams, calls>>
       ELSE /\ productId' = ext.value
            /\ productLocator' = locator
            /\ addressParts' = parts
            /\ IF hasTooFewParts(parts)
               THEN Throw(AddressFormatError) /\ UNCHANGED <<purchaseParams, calls>>
               ELSE /\ purchaseParams' = req
                    /\ IF t.kind # "object"
                       THEN Throw(ToolsNotInitializedError) /\ UNCHANGED calls
                       ELSE IF "buy_token" \notin t.keys
                       THEN Throw(ToolNotFoundError) /\ UNCHANGED calls
                       ELSE /\ calls' = Append(calls, BuyTokenCall(req))
                            /\ pc' = "checkout"
                            /\ UNCHANGED thrown
    /\ UNCHANGED <<tokenInfo, userInput, response>>

\* a catch block that calls buy_token once more
CatchCheckout_retry(e) ==
    /\ error' = e
    /\ calls' = Append(calls, BuyTokenCall(purchaseParams))
    /\ IF Len(calls) < 2 THEN pc' = "checkout" /\ UNCHANGED thrown ELSE Throw(e)

\* the inner catch block with the caught value e
CatchCheckout(e) ==
    /\ error' = e
    /\ IF e.type = "nullish"
       THEN Throw(ReadMessageError) /\ UNCHANGED calls
       ELSE IF e.msgKind = "other"
       THEN Throw(IncludesNotAFunctionError) /\ UNCHANGED calls
       ELSE IF /\ e.msgKind = "string"
               /\ e.message # <<>>
               /\ Includes(e.message, InsufficientFunds)
               /\ "get_token_info_by_symbol" \in tools.keys
               /\ tools.shape = "executable"
       THEN /\ calls' = Append(calls, TokenInfoCall)
            /\ pc' = "tokenInfo"
            /\ UNCHANGED thrown
       ELSE Throw(e) /\ UNCHANGED calls

\* buyTokenTool.execute resolves with o: log o.id || o, then return it
checkoutReturns(o) ==
    /\ fn = "handleAmazonPurchase"
    /\ pc = "checkout"
    /\ order' = o
    /\ IF o.type = "nullish"
       THEN CatchCheckout(ReadIdError) /\ UNCHANGED result
       ELSE /\ result' = o
            /\ pc' = "done"
            /\ UNCHANGED <<error, calls, thrown>>
    /\ UNCHANGED <<fn, amazonUrl, purchaseInfo, tools, walletAddress, productId,
                   productLocator, addressParts, purchaseParams>>
    /\ UNCHANGED <<tokenInfo, userInput, response>>

\* buyTokenTool.execute rejects with e
checkoutThrows(e) ==
    /\ fn = "handleAmazonPurchase"
    /\ pc = "checkout"
    /\ CatchCheckout(e)
    /\ UNCHANGED <<fn, amazonUrl, purchaseInfo, tools, walletAddress, productId,
                   productLocator, addressParts, purchaseParams, order, result>>
    /\ UNCHANGED <<tokenInfo, userInput, response>>

\* get_token_info_by_symbol.execute resolves: log the contract address (a TypeError
\* on a nullish tokenInfo is swallowed by the empty catch), then re-throw error
tokenInfoReturns(info) ==
    /\ fn = "handleAmazonPurchase"
    /\ pc = "tokenInfo"
    /\ Throw(error)
    /\ UNCHANGED <<fn, amazonUrl, purchaseInfo, tools, walletAddress, productId,
                   productLocator, addressParts, purchaseParams, order, error, calls,
                   result>>
    /\ tokenInfo' = info /\ UNCHANGED <<userInput, response>>

\* get_token_info_by_symbol.execute rejects: ignored, then re-throw error
tokenInfoThrows(e) ==
    /\ fn = "handleAmazonPurchase"
    /\ pc = "tokenInfo"
    /\ Throw(error)
    /\ UNCHANGED <<fn, amazonUrl, purchaseInfo, tools, walletAddress, productId,
                   productLocator, addressParts, purchaseParams, order, error, calls,
                   result>>
    /\ UNCHANGED <<tokenInfo, userInput, response>>

-----------------------------------------------------------------------------
(* directPurchase() *)

\* the module-level constants userInfo and amazonUrl
\* "Joyce Lee, 123 Main St, Anytown, CA 12345, US"
MainStAddress ==
    <<"J", "o", "y", "c", "e", " ", "L", "e", "e", ",", " ", "1", "2", "3",
      " ", "M", "a", "i", "n", " ", "S", "t", ",", " ", "A", "n", "y", "t",
      "o", "w", "n", ",", " ", "C", "A", " ", "1", "2", "3", "4", "5", ",",
      " ", "U", "S">>
DirectUserInfo ==
    [name |-> "Joyce Lee", shippingAddress |-> MainStAddress,
     email |-> "crossmintdemo@gmail.com"]
DirectUrl == Host \o DpMarker \o Asin2 \o RefTwister

\* typedTools.get_token_info_by_symbol.execute where the tool is absent
ReadExecuteError ==
    TypeError(<<"Cannot", "read", "properties", "of", "undefined", "(reading",
                "'execute')">>)
\* tokenInfo.contractAddress where tokenInfo is null or undefined
ReadContractAddressError ==
    TypeError(<<"Cannot", "read", "properties", "of", "undefined", "(reading",
                "'contractAddress')">>)
DirectToolNotAvailableError ==
    Error(<<"buy_token", "tool", "not", "available", "or", "not", "properly",
            "initialized">>)

\* the object purchaseParams of directPurchase
directPurchaseParams(info, parts, wallet, locator, tinfo) ==
    [recipient |-> [email |-> info.email, physicalAddress |-> physicalAddress(info, parts)],
     payment   |-> [method |-> "base", currency |-> "usdc", payerAddress |-> wallet,
                    chain |-> "base", tokenAddress |-> tinfo.contractAddress],
     lineItems |-> <<[productLocator |-> locator]>>]

\* console.error(error.message || error) in a catch block, then throw error:
\* the value the catch block ends with
LoggedAndRethrown(e) == IF e.type = "nullish" THEN ReadMessageError ELSE e

\* the call, up to the await of initializeGoatTools()
directPurchase ==
    /\ pc = "idle"
    /\ fn' = "directPurchase"
    /\ amazonUrl' = DirectUrl
    /\ purchaseInfo' = DirectUserInfo
    /\ pc' = "initializeGoatTools"
    /\ UNCHANGED <<tools, walletAddress, productId, productLocator, addressParts,
                   purchaseParams, order, error, calls, result, thrown, tokenInfo,
                   userInput, response>>

\* initializeGoatTools() rejects: the outer catch logs and re-throws
directInitializeGoatToolsThrows(e) ==
    /\ fn = "directPurchase"
    /\ pc = "initializeGoatTools"
    /\ Throw(LoggedAndRethrown(e))
    /\ UNCHANGED <<fn, amazonUrl, purchaseInfo, tools, walletAddress, productId,
                   productLocator, addressParts, purchaseParams, order, error, calls,
                   result, tokenInfo, userInput, response>>

\* initializeGoatTools() resolves: extraction, locator, address parsing, up to the
\* await of typedTools.get_token_info_by_symbol.execute({symbol: 'USDC'}, ...)
directInitializeGoatToolsReturns(t, wallet) ==
    LET ext == extractAmazonProductId(amazonUrl)
    IN
    /\ fn = "directPurchase"
    /\ pc = "initializeGoatTools"
    /\ tools' = t
    /\ walletAddress' = wallet
    /\ UNCHANGED <<fn, amazonUrl, purchaseInfo, purchaseParams, order, error, result,
                   tokenInfo, userInput, response>>
    /\ IF ~ext.ok
       THEN /\ Throw(ext.error)
            /\ UNCHANGED <<productId, productLocator, addressParts, calls>>
       ELSE /\ productId' = ext.value
            /\ productLocator' = formatProductLocator(ext.value)
            /\ addressParts' = Split(purchaseInfo.shippingAddress, AddressSep)
            /\ IF "get_token_info_by_symbol" \notin t.keys
               THEN Throw(ReadExecuteError) /\ UNCHANGED calls
               ELSE /\ calls' = Append(calls, TokenInfoCall)
                    /\ pc' = "tokenInfo"
                    /\ UNCHANGED thrown

\* get_token_info_by_symbol.execute resolves: assemble purchaseParams with
\* tokenInfo.contractAddress, check the buy_token tool, up to the await of
\* buyTokenTool.execute(purchaseParams, ...)
directTokenInfoReturns(info) ==
    LET req == directPurchaseParams(purchaseInfo, addressParts, walletAddress,
                                    productLocator, info)
    IN
    /\ fn = "directPurchase"
    /\ pc = "tokenInfo"
    /\ tokenInfo' = info
    /\ UNCHANGED <<fn, amazonUrl, purchaseInfo, tools, walletAddress, productId,
                   productLocator, addressParts, order, error, result, userInput,
                   response>>
    /\ IF info.type = "nullish"
       THEN Throw(ReadContractAddressError) /\ UNCHANGED <<purchaseParams, calls>>
       ELSE /\ purchaseParams' = req
            /\ IF "buy_token" \notin tools.keys \/ tools.shape # "executable"
               THEN Throw(DirectToolNotAvailableError) /\ UNCHANGED calls
               ELSE /\ calls' = Append(calls, BuyTokenCall(req))
                    /\ pc' = "checkout"
                    /\ UNCHANGED thrown

\* get_token_info_by_symbol.execute rejects: the outer catch logs and re-throws
directTokenInfoThrows(e) ==
    /\ fn = "directPurchase"
    /\ pc = "tokenInfo"
    /\ Throw(LoggedAndRethrown(e))
    /\ UNCHANGED <<fn, amazonUrl, purchaseInfo, tools, walletAddress, productId,
                   productLocator, addressParts, purchaseParams, order, error, calls,
                   result, tokenInfo, userInput, response>>

\* buyTokenTool.execute resolves: return result
directCheckoutReturns(v) ==
    /\ fn = "directPurchase"
    /\ pc = "checkout"
    /\ order' = v
    /\ result' = v
    /\ pc' = "done"
    /\ UNCHANGED <<fn, amazonUrl, purchaseInfo, tools, walletAddress, productId,
                   productLocator, addressParts, purchaseParams, error, calls, thrown,
                   tokenInfo, userInput, response>>

\* buyTokenTool.execute rejects: the inner catch logs the failure (and the
\* insufficient-funds details) and re-throws, then the outer catch does
directCheckoutThrows(e) ==
    /\ fn = "directPurchase"
    /\ pc = "checkout"
    /\ error' = e
    /\ IF e.type = "nullish"
       THEN Throw(ReadMessageError)
       ELSE IF e.msgKind = "other"
       THEN Throw(IncludesNotAFunctionError)
       ELSE Throw(e)
    /\ UNCHANGED <<fn, amazonUrl, purchaseInfo, tools, walletAddress, productId,
                   productLocator, addressParts, purchaseParams, order, calls, result,
                   tokenInfo, userInput, response>>

-----------------------------------------------------------------------------
(* YourAgentFramework.handleAmazonPurchaseIntent(userInput) *)

HttpHost == <<"h", "t", "t", "p", ":", "/", "/", "w", "w", "w", ".",
              "a", "m", "a", "z", "o", "n", ".", "c", "o", "m">>
\* the class \s, as far as the inputs have it
Whitespace == {" "}

\* the regular expression https?:\/\/www\.amazon\.com\/[^\s]+ matches input at i
UrlMatchesAt(input, i) ==
    \E h \in {Host, HttpHost} :
        /\ OccursAt(input, h \o <<"/">>, i)
        /\ i + Len(h) + 1 <= Len(input)
        /\ input[i + Len(h) + 1] \notin Whitespace

\* userInput.match(regex)?.[1]: the leftmost match, taken up to the next
\* whitespace or the end of the input; undefined without a match
UrlMatch(input) ==
    LET hits == {i \in 1..Len(input) : UrlMatchesAt(input, i)}
    IN  IF hits = {} THEN Undefined
        ELSE LET i    == CHOOSE h \in hits : \A g \in hits : h <= g
                 stop == {k \in i..Len(input) : input[k] \in Whitespace}
                 last == IF stop = {} THEN Len(input)
                         ELSE (CHOOSE k \in stop : \A g \in stop : k <= g) - 1
             IN  SubSeq(input, i, last)

\* const userInfo of handleAmazonPurchaseIntent
IntentUserInfo ==
    [name |-> "Joyce Lee", shippingAddress |-> MainStAddress,
     email |-> "crossmintdemo@gmail.com"]

\* the strings handleAmazonPurchaseIntent resolves with, by their words
Message(words) == [type |-> "message", text |-> words]
NoUrlMessage ==
    Message(<<"I", "couldn't", "find", "an", "Amazon", "URL", "in", "your", "request.",
              "Please", "provide", "a", "valid", "Amazon", "product", "URL.">>)
SuccessMessage ==
    Message(<<"Great", "news!", "I've", "completed", "your", "purchase", "from",
              "Amazon.">>)
ApologyMessage(e) ==
    Message(<<"I'm", "sorry,", "but", "I", "couldn't", "complete", "your", "Amazon",
              "purchase.", "Error:">> \o e.message)
\* result.order.orderId where result has no order field
ReadOrderIdError ==
    TypeError(<<"Cannot", "read", "properties", "of", "undefined", "(reading",
                "'orderId')">>)

\* the messages a user can send
UserInputs ==
    {pre \o core \o post :
        pre  \in {<<>>, <<"b", "u", "y", " ">>},
        core \in {Host \o DpMarker \o Asin1,
                  HttpHost \o GpMarker \o Asin2 \o <<"?">>,
                  Host \o <<"/">> \o HalfAsin,
                  Host \o <<"/">>,
                  Host,
                  <<"a", "m", "a", "z", "o", "n", ".", "c", "o", "m">> \o DpMarker \o Asin1},
        post \in {<<>>, <<" ", "n", "o", "w">>}}

\* the call: without a URL in the input the message is returned at once, else up
\* to the await of initializeGoatTools() inside handleAmazonPurchase(amazonUrl,
\* userInfo); fn is then the function the run is inside of
handleAmazonPurchaseIntent(input) ==
    LET urlMatch == UrlMatch(input)
    IN
    /\ pc = "idle"
    /\ userInput' = input
    /\ IF urlMatch = Undefined
       THEN /\ fn' = "handleAmazonPurchaseIntent"
            /\ response' = NoUrlMessage
            /\ pc' = "done"
            /\ UNCHANGED <<amazonUrl, purchaseInfo>>
       ELSE /\ fn' = "handleAmazonPurchase"
            /\ amazonUrl' = urlMatch
            /\ purchaseInfo' = IntentUserInfo
            /\ pc' = "initializeGoatTools"
            /\ UNCHANGED response
    /\ UNCHANGED <<tools, walletAddress, productId, productLocator, addressParts,
                   purchaseParams, order, error, calls, result, thrown, tokenInfo>>

\* handleAmazonPurchase(amazonUrl, userInfo) resolved: the success template reads
\* result.order.orderId; the TypeError of a result without an order field is
\* caught by the catch block, which returns the apology
intentHandleAmazonPurchaseReturns ==
    /\ userInput # None
    /\ fn = "handleAmazonPurchase"
    /\ pc = "done"
    /\ thrown = None
    /\ response = None
    /\ response' = IF "order" \in result.keys
                   THEN SuccessMessage
                   ELSE ApologyMessage(ReadOrderIdError)
    /\ UNCHANGED <<fn, pc, amazonUrl, purchaseInfo, tools, walletAddress, productId,
                   productLocator, addressParts, purchaseParams, order, error, calls,
                   result, thrown, tokenInfo, userInput>>

\* handleAmazonPurchase(amazonUrl, userInfo) rejected: the catch block returns
\* the apology with error.message
intentHandleAmazonPurchaseThrows ==
    /\ userInput # None
    /\ fn = "handleAmazonPurchase"
    /\ pc = "done"
    /\ thrown # None
    /\ response = None
    /\ response' = ApologyMessage(thrown)
    /\ UNCHANGED <<fn, pc, amazonUrl, purchaseInfo, tools, walletAddress, productId,
                   productLocator, addressParts, purchaseParams, order, error, calls,
                   result, thrown, tokenInfo, userInput>>

-----------------------------------------------------------------------------
(* One call of one of the entry points *)

\* the inputs a caller can pass
CallPurchaseProduct ==
    /\ pc = "idle"
    /\ \E t \in ToolsArgs, id \in {Asin1, Asin2}, w \in Wallets, info \in PurchaseInfos :
          purchaseProduct(t, id, w, info)

CallHandleAmazonPurchase ==
    /\ pc = "idle"
    /\ \E url \in HapUrls, info \in PurchaseInfos : handleAmazonPurchase(url, info)

CallHandleAmazonPurchaseIntent ==
    /\ pc = "idle"
    /\ \E input \in UserInputs : handleAmazonPurchaseIntent(input)

Next ==
    \/ CallPurchaseProduct
    \/ \E v \in Orders : purchaseProductToolReturns(v)
    \/ \E e \in Rejections : purchaseProductToolThrows(e)
    \/ CallHandleAmazonPurchase
    \/ \E e \in InitRejections : initializeGoatToolsThrows(e)
    \/ \E t \in SdkTools, w \in Wallets : initializeGoatToolsReturns(t, w)
    \/ \E o \in Orders : checkoutReturns(o)
    \/ \E e \in Rejections : checkoutThrows(e)
    \/ \E info \in TokenInfos : tokenInfoReturns(info)
    \/ \E e \in Rejections : tokenInfoThrows(e)
    \/ directPurchase
    \/ \E e \in InitRejections : directInitializeGoatToolsThrows(e)
    \/ \E t \in SdkTools, w \in Wallets : directInitializeGoatToolsReturns(t, w)
    \/ \E info \in TokenInfos : directTokenInfoReturns(info)
    \/ \E e \in Rejections : directTokenInfoThrows(e)
    \/ \E v \in Orders : directCheckoutReturns(v)
    \/ \E e \in Rejections : directCheckoutThrows(e)
    \/ CallHandleAmazonPurchaseIntent
    \/ intentHandleAmazonPurchaseReturns
    \/ intentHandleAmazonPurchaseThrows

Spec == Init /\ [][Next]_vars

-----------------------------------------------------------------------------
(* extractAmazonProductId and formatProductLocator applied to a URL *)

InitExtract ==
    /\ fn = "extractAmazonProductId"
    /\ pc = "call"
    /\ amazonUrl \in Urls
    /\ purchaseInfo = None
    /\ tools = NullTools
    /\ walletAddress = ""
    /\ productId = Undefined
    /\ productLocator = Undefined
    /\ addressParts = <<>>
    /\ purchaseParams = None
    /\ order = None
    /\ error = None
    /\ calls = <<>>
    /\ result = None
    /\ thrown = None
    /\ tokenInfo = None
    /\ userInput = None
    /\ response = None

\* const productId = extractAmazonProductId(amazonUrl)
ExtractStep ==
    LET ext == extractAmazonProductId(amazonUrl)
    IN
    /\ pc = "call"
    /\ IF ext.ok
       THEN productId' = ext.value /\ pc' = "extracted" /\ UNCHANGED thrown
       ELSE Throw(ext.error) /\ UNCHANGED productId
    /\ UNCHANGED <<fn, amazonUrl, purchaseInfo, tools, walletAddress, productLocator,
                   addressParts, purchaseParams, order, error, calls, result>>
    /\ UNCHANGED <<tokenInfo, userInput, response>>

\* const productLocator = formatProductLocator(productId)
FormatStep ==
    /\ pc = "extracted"
    /\ productLocator' = formatProductLocator(productId)
    /\ pc' = "done"
    /\ UNCHANGED <<fn, amazonUrl, purchaseInfo, tools, walletAddress, productId,
                   addressParts, purchaseParams, order, error, calls, result, thrown>>
    /\ UNCHANGED <<tokenInfo, userInput, response>>

NextExtract == ExtractStep \/ FormatStep

SpecExtract == InitExtract /\ [][NextExtract]_vars

-----------------------------------------------------------------------------
(* Vocabulary of the properties *)

IsCall == fn \in {"purchaseProduct", "handleAmazonPurchase"}

\* the ", "-separated parts of the shipping address of the current call
InputParts == Split(purchaseInfo.shippingAddress, AddressSep)

\* the requests handed to the checkout tool so far
BuyTokenRequests == {calls[i].args : i \in {j \in 1..Len(calls) : calls[j].tool = "buy_token"}}

\* number of invocations of the checkout tool so far
BuyTokenCount == Cardinality({j \in 1..Len(calls) : calls[j].tool = "buy_token"})

-----------------------------------------------------------------------------
(* C1 *)

\* C1: an address whose fifth ", "-separated part is present and is not "US"
\* never reaches the checkout tool, and a call that got as far as splitting
\* the address ends with the unsupported-country error; at purchaseProduct and
\* at handleAmazonPurchase alike.  (Stated for a non-empty fifth part; the
\* empty fifth part is the case of C8.)
C1_NonUsCountryRejected ==
    (IsCall /\ Len(InputParts) >= 5 /\ InputParts[5] \notin {US, <<>>})
        => /\ BuyTokenCount = 0
           /\ (pc = "done" /\ addressParts # <<>>) => thrown = UnsupportedCountryError

-----------------------------------------------------------------------------
(* C2 *)

\* C2: every request handed to the checkout tool has exactly one line item,
\* payment.method "base", payment.currency "usdc" and payment.chain "base".
C2_RequestShape ==
    \A req \in BuyTokenRequests :
        /\ Len(req.lineItems) = 1
        /\ req.payment.method = "base"
        /\ req.payment.currency = "usdc"
        /\ "chain" \in DOMAIN req.payment
        /\ req.payment.chain = "base"

-----------------------------------------------------------------------------
(* C3 *)

\* the AsinLen characters of url right after a marker found at position i
SegmentAfter(url, marker, i) ==
    SubSeq(url, i + Len(marker), i + Len(marker) + AsinLen - 1)

\* marker occurs at i and is followed by AsinLen characters of [A-Z0-9], after
\* which the url ends or continues with one of the characters of enders
MarkedSegmentAt(url, marker, i, enders) ==
    LET from == i + Len(marker)
    IN  /\ from + AsinLen - 1 <= Len(url)
        /\ SubSeq(url, i, from - 1) = marker
        /\ \A k \in from..(from + AsinLen - 1) : url[k] \in UpperAlnum
        /\ \/ from + AsinLen = Len(url) + 1
           \/ url[from + AsinLen] \in enders

\* the segments of url that follow a marker and end as enders allow
MarkedSegments(url, enders) ==
    UNION {{SegmentAfter(url, m, i) :
                i \in {j \in 1..Len(url) : MarkedSegmentAt(url, m, j, enders)}} :
           m \in {DpMarker, GpMarker}}

Extracted == pc \in {"extracted", "done"} /\ thrown = None
ExtractFailed == pc = "done" /\ thrown = ExtractionError /\ productId = Undefined

\* C3 as claimed: a url with a 10-character [A-Z0-9] path segment (ended by "/",
\* "?", "#" or the end of the url) right after /dp/ or /gp/product/ yields such
\* a segment, and every other url throws the extraction error.
C3_ExtractsEverySegment ==
    pc # "call" =>
        LET segs == MarkedSegments(amazonUrl, {"/", "?", "#"})
        IN  IF segs # {} THEN Extracted /\ productId \in segs ELSE ExtractFailed

\* C3 amended: the segment must be followed by "/", "?" or the end of the url;
\* then such a segment is returned, and every other url throws.
C3_ExtractsTerminatedSegment ==
    pc # "call" =>
        LET segs == MarkedSegments(amazonUrl, {"/", "?"})
        IN  IF segs # {} THEN Extracted /\ productId \in segs ELSE ExtractFailed

C3_Witness ==
    /\ pc = "extracted"
    /\ amazonUrl = Host \o GpMarker \o Asin2 \o <<"?">> \o <<"x">>
    /\ productId = Asin2

-----------------------------------------------------------------------------
(* C4 *)

\* wallet initialisation, extraction, address parsing and the buy_token
\* presence check of the current handleAmazonPurchase call have all succeeded
AllStepsSucceeded ==
    /\ pc \notin {"idle", "initializeGoatTools"}
    /\ walletAddress # ""
    /\ extractAmazonProductId(amazonUrl).ok
    /\ Len(InputParts) >= 4
    /\ tools.kind = "object"
    /\ "buy_token" \in tools.keys

\* C4: in a call of handleAmazonPurchase the checkout tool's execute is invoked
\* exactly once when wallet initialisation, extraction, address parsing and
\* the buy_token presence check all succeeded, and not at all otherwise; also
\* after it has failed it has still been invoked only once.
C4_CheckoutAtMostOnce ==
    fn = "handleAmazonPurchase" =>
        BuyTokenCount = (IF AllStepsSucceeded THEN 1 ELSE 0)

\* the checkout call failed and the run has ended
C4_Witness ==
    /\ fn = "handleAmazonPurchase"
    /\ pc = "done"
    /\ error = Error(<<"Network", "error">>)
    /\ thrown = error
    /\ BuyTokenCount = 1

-----------------------------------------------------------------------------
(* C5 *)

\* C5: when the checkout step of handleAmazonPurchase fails, the caller
\* receives that same failure value, whatever happens in the error handler
\* (the token-info lookup or any other diagnostic step).
C5_FailurePropagatedUnchanged ==
    (fn = "handleAmazonPurchase" /\ pc = "done" /\ error # None) => thrown = error

-----------------------------------------------------------------------------
(* C6 *)

\* C6: whenever the checkout tool's execute returned a value, handleAmazonPurchase
\* returns exactly that value and does not fail.
C6_SuccessReturnedVerbatim ==
    (fn = "handleAmazonPurchase" /\ order # None) =>
        (pc = "done" /\ result = order /\ thrown = None)

-----------------------------------------------------------------------------
(* C7 *)

\* C7 as claimed: an address of fewer than 4 parts never reaches the checkout
\* tool, and the call, purchaseProduct or handleAmazonPurchase (once its
\* wallet is initialised), ends with the address-format error.
C7_ShortAddressRejected ==
    (IsCall /\ Len(InputParts) < 4)
        => /\ BuyTokenCount = 0
           /\ (pc = "done" /\ walletAddress # "") => thrown = AddressFormatError

\* C7 amended: handleAmazonPurchase ends with the address-format error when
\* wallet initialisation and extraction succeeded, and with the error of the
\* earlier failing step otherwise; purchaseProduct always ends with it; the
\* checkout tool is never invoked.
C7_ShortAddressRejectedInOrder ==
    (IsCall /\ Len(InputParts) < 4)
        => /\ BuyTokenCount = 0
           /\ pc \in {"idle", "initializeGoatTools", "done"}
           /\ (pc = "done" /\ fn = "purchaseProduct") => thrown = AddressFormatError
           /\ (pc = "done" /\ fn = "handleAmazonPurchase") =>
                 IF walletAddress = "" THEN thrown \in InitRejections
                 ELSE IF ~extractAmazonProductId(amazonUrl).ok THEN thrown = ExtractionError
                 ELSE thrown = AddressFormatError

\* "Jane Doe, 1 Rd, Town"-like: three parts, past initialisation and extraction
C7_Witness ==
    /\ fn = "handleAmazonPurchase"
    /\ pc = "done"
    /\ Len(InputParts) = 3
    /\ productId = Asin1
    /\ thrown = AddressFormatError
    /\ Includes(thrown.message, <<"Name,", "Street,", "City,", "State", "ZIP,", "Country">>)

-----------------------------------------------------------------------------
(* C8 *)

\* purchaseProduct got past the address-format check
PastFormatCheck == fn = "purchaseProduct" /\ Len(InputParts) >= 4

\* C8 as claimed: the country purchaseProduct validates is part[4] whenever a
\* fifth part is present, whatever its content, and "US" only for 4 parts.
C8_CountryIsFifthPart ==
    PastFormatCheck =>
        LET c == IF Len(InputParts) >= 5 THEN InputParts[5] ELSE US
        IN  (thrown = UnsupportedCountryError) <=> (c # US)

\* C8 amended: the country is part[4] when a fifth part is present and not
\* empty, and "US" when the address has exactly 4 parts or an empty fifth
\* part; so every 4-part address passes the country validation of
\* purchaseProduct, and the request is built once buy_token is there (in
\* handleAmazonPurchase, which validates nothing, as soon as the address has
\* 4 parts).
C8_CountryIsNonEmptyFifthPart ==
    /\ PastFormatCheck =>
        LET c == IF Len(InputParts) >= 5 /\ InputParts[5] # <<>> THEN InputParts[5] ELSE US
        IN  /\ (thrown = UnsupportedCountryError) <=> (c # US)
            /\ thrown # AddressFormatError
            /\ (c = US /\ tools.kind = "object" /\ "buy_token" \in tools.keys)
                   => purchaseParams # None
    /\ (fn = "handleAmazonPurchase" /\ addressParts # <<>> /\ Len(addressParts) >= 4)
        => (purchaseParams # None /\ thrown \notin {AddressFormatError, UnsupportedCountryError})

\* a 4-part address accepted by purchaseProduct with the default country
C8_Witness ==
    /\ fn = "purchaseProduct"
    /\ Len(InputParts) = 4
    /\ pc = "checkout"
    /\ BuyTokenCount = 1

-----------------------------------------------------------------------------
(* C9 *)

\* positions of the spaces of s
Spaces(s) == {i \in 1..Len(s) : s[i] = " "}

\* the whitespace-delimited tokens of s: its maximal runs without a space
RECURSIVE WsTokens(_)
WsTokens(s) ==
    IF s = <<>> THEN <<>>
    ELSE IF s[1] = " " THEN WsTokens(Tail(s))
    ELSE LET stop == IF Spaces(s) = {} THEN Len(s) + 1
                     ELSE CHOOSE i \in Spaces(s) : \A j \in Spaces(s) : i <= j
         IN  <<SubSeq(s, 1, stop - 1)>> \o WsTokens(SubSeq(s, stop, Len(s)))

\* the text of s before its first space
BeforeFirstSpace(s) ==
    IF Spaces(s) = {} THEN s
    ELSE SubSeq(s, 1, (CHOOSE i \in Spaces(s) : \A j \in Spaces(s) : i <= j) - 1)

\* the text of s between its first and its second space (to the end of s when
\* it has one space only), undefined when s has no space
AfterFirstSpace(s) ==
    IF Spaces(s) = {} THEN Undefined
    ELSE LET first == CHOOSE i \in Spaces(s) : \A j \in Spaces(s) : i <= j
         IN  BeforeFirstSpace(SubSeq(s, first + 1, Len(s)))

\* the recipient address a request-building call site has to emit, given what
\* state and postalCode are
ExpectedAddress(st, zip) ==
    [name       |-> purchaseInfo.name,
     line1      |-> InputParts[2],
     city       |-> InputParts[3],
     state      |-> st,
     postalCode |-> zip,
     country    |-> US]

\* the request the same call would have built with another part[0]
WithOtherFirstPart ==
    LET other == <<<<"Z", "z">>>> \o Tail(addressParts)
    IN  IF fn = "purchaseProduct"
        THEN purchaseProductParams(purchaseInfo, other, walletAddress, productId)
        ELSE IF fn = "directPurchase"
        THEN directPurchaseParams(purchaseInfo, other, walletAddress, productLocator,
                                  tokenInfo)
        ELSE handlePurchaseParams(purchaseInfo, other, walletAddress, productLocator)

\* C9 as claimed: name, line1 and city are the contact name, part[1] and
\* part[2], and state and postalCode are the first and the second
\* whitespace-delimited token of part[3] (where part[3] has that many tokens).
C9_StateZipAreTokens ==
    \A req \in BuyTokenRequests :
        LET tokens == WsTokens(InputParts[4])
            a      == req.recipient.physicalAddress
        IN  /\ a.name = purchaseInfo.name
            /\ a.line1 = InputParts[2]
            /\ a.city = InputParts[3]
            /\ Len(tokens) >= 1 => a.state = tokens[1]
            /\ Len(tokens) >= 2 => a.postalCode = tokens[2]

\* C9 amended: state is the text of part[3] before its first space and
\* postalCode the text between its first and second space (absent when
\* part[3] has no space); name, line1 and city are as claimed, part[0] has no
\* influence, and purchaseProduct rejects no state or postal-code shape.
C9_StateZipSplitOnSingleSpace ==
    /\ \A req \in BuyTokenRequests :
          /\ req.recipient.physicalAddress =
                ExpectedAddress(BeforeFirstSpace(InputParts[4]), AfterFirstSpace(InputParts[4]))
          /\ req = WithOtherFirstPart
    /\ (/\ fn = "purchaseProduct"
        /\ Len(InputParts) >= 4
        /\ (Len(InputParts) = 4 \/ InputParts[5] \in {US, <<>>})
        /\ tools.kind = "object" /\ "buy_token" \in tools.keys /\ tools.shape = "function")
           => BuyTokenCount = 1

\* "FL  33131": two spaces between state and ZIP code
C9_Witness ==
    /\ fn = "purchaseProduct"
    /\ pc = "checkout"
    /\ InputParts[4] = <<"F", "L", " ", " ", "3", "3", "1", "3", "1">>
    /\ \E req \in BuyTokenRequests :
          /\ req.recipient.physicalAddress.state = <<"F", "L">>
          /\ req.recipient.physicalAddress.postalCode = <<>>

-----------------------------------------------------------------------------
(* C10 *)

\* C10: in every request that reaches the checkout tool the recipient's
\* country is "US", whatever the fifth part of the address is.
C10_EmittedCountryIsUS ==
    \A req \in BuyTokenRequests : req.recipient.physicalAddress.country = US

\* a request sent for an address whose fifth part is "FR"
C10_Witness ==
    /\ Len(addressParts) >= 5
    /\ addressParts[5] = FR
    /\ \E req \in BuyTokenRequests : req.recipient.physicalAddress.country = US

-----------------------------------------------------------------------------
(* C11 *)

\* C11: a run of handleAmazonPurchase takes its steps in the order wallet
\* initialisation, product-id extraction, address parsing and request assembly,
\* checkout call.  The checkout tool is invoked only after wallet initialisation,
\* extraction and address parsing have all succeeded; and when wallet
\* initialisation, extraction or the address-format check fails, the run ends
\* with that failure and no later step has started (its results are unset and
\* no tool was invoked).
C11_StepsInOrder ==
    fn = "handleAmazonPurchase" =>
        LET ext   == extractAmazonProductId(amazonUrl)
            short == Len(InputParts) < 4
        IN
        /\ pc = "initializeGoatTools"
              => /\ walletAddress = "" /\ productId = Undefined
                 /\ addressParts = <<>> /\ purchaseParams = None /\ calls = <<>>
        /\ BuyTokenCount > 0
              => /\ walletAddress # ""
                 /\ ext.ok /\ productId = ext.value
                 /\ ~short /\ addressParts = InputParts
                 /\ purchaseParams # None
                 /\ calls[1] = BuyTokenCall(purchaseParams)
        /\ (pc = "done" /\ walletAddress = "")
              => /\ thrown \in InitRejections
                 /\ productId = Undefined /\ addressParts = <<>>
                 /\ purchaseParams = None /\ calls = <<>>
        /\ (walletAddress # "" /\ ~ext.ok)
              => /\ pc = "done" /\ thrown = ext.error
                 /\ productId = Undefined /\ addressParts = <<>>
                 /\ purchaseParams = None /\ calls = <<>>
        /\ (walletAddress # "" /\ ext.ok /\ short)
              => /\ pc = "done" /\ thrown = AddressFormatError
                 /\ productId = ext.value
                 /\ purchaseParams = None /\ calls = <<>>

\* a run whose URL and address are both invalid ended with the extraction error,
\* the address never parsed
C11_Witness ==
    /\ fn = "handleAmazonPurchase" /\ pc = "done"
    /\ walletAddress # ""
    /\ ~extractAmazonProductId(amazonUrl).ok
    /\ Len(InputParts) < 4
    /\ thrown = ExtractionError
    /\ addressParts = <<>>

-----------------------------------------------------------------------------
(* C12 *)

\* the positions in calls of the invocations of get_token_info_by_symbol
TokenInfoCalls == {i \in 1..Len(calls) : calls[i].tool = "get_token_info_by_symbol"}

\* C12: in every purchase flow (handleAmazonPurchase and directPurchase) the
\* token-info tool is invoked only after the checkout call has failed: every
\* invocation of get_token_info_by_symbol directly follows an invocation of
\* buy_token whose failure was caught, no request is handed to buy_token after
\* the token-info tool was invoked (so its answer is in no request), and a run
\* in which checkout succeeded has not invoked it at all.
C12_TokenInfoOnlyAfterFailedCheckout ==
    fn \in {"handleAmazonPurchase", "directPurchase"} =>
        /\ \A i \in TokenInfoCalls :
              /\ i > 1
              /\ calls[i - 1].tool = "buy_token"
              /\ error # None
              /\ \A j \in (i + 1)..Len(calls) : calls[j].tool # "buy_token"
        /\ (order # None /\ order.type # "nullish") => TokenInfoCalls = {}

-----------------------------------------------------------------------------
(* C13 *)

\* the positions of url at which marker is followed by a product reference
\* that the url ends after or continues after with "/" or "?"
ReferencesAt(url, marker) ==
    {i \in 1..Len(url) : MarkedSegmentAt(url, marker, i, {"/", "?"})}

\* the least element of a non-empty set of positions
Leftmost(ps) == CHOOSE p \in ps : \A q \in ps : p <= q

\* C13: extractAmazonProductId prefers the /dp/ shape: when the url holds a
\* /dp/ reference the returned id is the reference of the leftmost /dp/
\* occurrence, wherever the /gp/product/ references are; only without a /dp/
\* reference it is the reference of the leftmost /gp/product/ occurrence; and
\* the id is the characters of the url, unchanged.
C13_DpPreferredLeftmostVerbatim ==
    (pc \in {"extracted", "done"} /\ thrown = None) =>
        LET dps == ReferencesAt(amazonUrl, DpMarker)
            gps == ReferencesAt(amazonUrl, GpMarker)
        IN  /\ dps # {} => productId = SegmentAfter(amazonUrl, DpMarker, Leftmost(dps))
            /\ (dps = {} /\ gps # {})
                  => productId = SegmentAfter(amazonUrl, GpMarker, Leftmost(gps))
            /\ dps \cup gps # {}

\* a /gp/product/ reference occurs before the /dp/ reference, and the latter
\* is returned
C13_Witness ==
    /\ pc = "extracted"
    /\ amazonUrl = Host \o GpMarker \o Asin2 \o DpMarker \o Asin1
    /\ productId = Asin1

-----------------------------------------------------------------------------
(* C14 *)

\* C14: formatProductLocator(ref) is "amazon:" followed by ref unchanged.  So
\* every request handed to the checkout tool has exactly one line item, whose
\* productLocator is "amazon:" followed by the product id of the run; in the
\* flows that start from a URL that id is the one extracted from the URL, and
\* the URLs https://www.amazon.com/dp/B08SVZ775L and
\* https://www.amazon.com/dp/B0CJCK8LCJ/ref=twister_B0D3TK8MMP give
\* "amazon:B08SVZ775L" and "amazon:B0CJCK8LCJ".
C14_LocatorIsPrefixedId ==
    /\ productLocator # Undefined
          => productLocator = <<"a", "m", "a", "z", "o", "n", ":">> \o productId
    /\ \A req \in BuyTokenRequests :
          /\ Len(req.lineItems) = 1
          /\ DOMAIN req.lineItems[1] = {"productLocator"}
          /\ req.lineItems[1].productLocator =
                <<"a", "m", "a", "z", "o", "n", ":">> \o productId
          /\ fn \in {"handleAmazonPurchase", "directPurchase"}
                => /\ productId \in MarkedSegments(amazonUrl, {"/", "?"})
                   /\ amazonUrl = Host \o DpMarker \o Asin1
                         => req.lineItems[1].productLocator =
                                <<"a", "m", "a", "z", "o", "n", ":", "B",
                                  "0", "8", "S", "V", "Z", "7", "7", "5", "L">>
                   /\ amazonUrl = Host \o DpMarker \o Asin2 \o RefTwister
                         => req.lineItems[1].productLocator =
                                <<"a", "m", "a", "z", "o", "n", ":", "B",
                                  "0", "C", "J", "C", "K", "8", "L", "C", "J">>

\* handleAmazonPurchase handed buy_token the locator of the second example URL
C14_Witness ==
    /\ fn = "handleAmazonPurchase"
    /\ amazonUrl = Host \o DpMarker \o Asin2 \o RefTwister
    /\ BuyTokenCount = 1
    /\ calls[1].args.lineItems = <<[productLocator |->
            <<"a", "m", "a", "z", "o", "n", ":", "B",
              "0", "C", "J", "C", "K", "8", "L", "C", "J">>]>>

-----------------------------------------------------------------------------
(* C15 *)

\* the user's message holds "http://www.amazon.com/" or
\* "https://www.amazon.com/" followed by a character that is no space
HasAmazonUrl(input) ==
    \E i \in 1..Len(input), h \in {Host, HttpHost} :
        /\ i + Len(h) + 1 <= Len(input)
        /\ SubSeq(input, i, i + Len(h)) = h \o <<"/">>
        /\ input[i + Len(h) + 1] # " "

\* C15: handleAmazonPurchaseIntent always answers with a message that tells
\* what happened: without an Amazon URL in the input it returns the
\* "couldn't find an Amazon URL" message and handleAmazonPurchase is not
\* called; when handleAmazonPurchase failed it returns the apology carrying
\* the failure's message; and whenever handleAmazonPurchase returned, so that
\* the purchase went through, it returns the success message, whatever the
\* shape of the returned order.
C15_IntentReportsTruthfully ==
    userInput # None =>
        /\ ~HasAmazonUrl(userInput)
              => /\ response = NoUrlMessage
                 /\ fn = "handleAmazonPurchaseIntent"
                 /\ calls = <<>> /\ walletAddress = ""
        /\ HasAmazonUrl(userInput) => fn = "handleAmazonPurchase"
        /\ (response # None /\ thrown # None) => response = ApologyMessage(thrown)
        /\ (response # None /\ result # None) => response = SuccessMessage

-----------------------------------------------------------------------------
(* C16 *)

\* the tools object of the current call exists and has no buy_token entry
BuyTokenMissing == IsCall /\ tools.kind = "object" /\ "buy_token" \notin tools.keys

\* the error of the earliest failing check of purchaseProduct on the current
\* input, the tool missing: address format, then country, then tool presence
EarliestPurchaseProductError ==
    IF Len(InputParts) < 4 THEN AddressFormatError
    ELSE IF Len(InputParts) >= 5 /\ InputParts[5] \notin {US, <<>>}
    THEN UnsupportedCountryError
    ELSE ToolNotAvailableError

\* C16 as claimed: with a tools object that has no buy_token entry no tool is
\* ever invoked; purchaseProduct fails with the error of its earliest failing
\* check (address format, country, tool presence), and handleAmazonPurchase
\* fails with its tool-not-found error.
C16_MissingToolRejected ==
    BuyTokenMissing =>
        /\ calls = <<>> /\ pc = "done" /\ result = None
        /\ fn = "purchaseProduct" => thrown = EarliestPurchaseProductError
        /\ fn = "handleAmazonPurchase" => thrown = ToolNotFoundError

\* C16 amended: handleAmazonPurchase, too, fails with the error of its earliest
\* failing step: the extraction error, then the address-format error, and the
\* tool-not-found error only when extraction and address parsing succeeded.
C16_MissingToolRejectedInOrder ==
    BuyTokenMissing =>
        /\ calls = <<>> /\ pc = "done" /\ result = None
        /\ fn = "purchaseProduct" => thrown = EarliestPurchaseProductError
        /\ fn = "handleAmazonPurchase"
              => thrown = IF MarkedSegments(amazonUrl, {"/", "?"}) = {}
                          THEN ExtractionError
                          ELSE IF Len(InputParts) < 4 THEN AddressFormatError
                          ELSE ToolNotFoundError

\* purchaseProduct without buy_token and with a French address: the country
\* check answers
C16_Witness ==
    /\ BuyTokenMissing
    /\ fn = "purchaseProduct"
    /\ Len(InputParts) >= 5 /\ InputParts[5] = FR
    /\ thrown = UnsupportedCountryError

-----------------------------------------------------------------------------
(* C17 *)

\* the shipping address of the current call has at least 4 parts and its fifth
\* part, when there is one, is "US" or empty
UsAddress ==
    /\ Len(InputParts) >= 4
    /\ Len(InputParts) = 4 \/ InputParts[5] \in {US, <<>>}

\* purchaseProduct, given a callable buy_token, reaches the checkout call on
\* exactly the inputs with a UsAddress, with the request of purchaseProductParams
PurchaseProductAcceptsUsAddresses ==
    (/\ fn = "purchaseProduct"
     /\ tools.kind = "object" /\ "buy_token" \in tools.keys /\ tools.shape = "function")
        => /\ BuyTokenCount = 1 <=> UsAddress
           /\ BuyTokenRequests \subseteq
                 {purchaseProductParams(purchaseInfo, InputParts, walletAddress, productId)}

\* on every input purchaseProduct reaches checkout on, handleAmazonPurchase with
\* a URL yielding the same product id reaches checkout with a request that
\* agrees with purchaseProduct's on recipient, lineItems and payment.method,
\* payment.currency and payment.payerAddress
HandleAmazonPurchaseFollows ==
    (/\ fn = "handleAmazonPurchase"
     /\ pc \notin {"idle", "initializeGoatTools"}
     /\ walletAddress # ""
     /\ productId # Undefined
     /\ tools.kind = "object" /\ "buy_token" \in tools.keys
     /\ UsAddress)
        => LET other == purchaseProductParams(purchaseInfo, InputParts, walletAddress,
                                              productId)
           IN  /\ BuyTokenCount = 1
               /\ \A req \in BuyTokenRequests :
                     /\ req.recipient = other.recipient
                     /\ req.lineItems = other.lineItems
                     /\ req.payment.method = other.payment.method
                     /\ req.payment.currency = other.payment.currency
                     /\ req.payment.payerAddress = other.payment.payerAddress

\* C17: the two request-building call sites agree.  On every input on which
\* purchaseProduct reaches the checkout call, handleAmazonPurchase reaches it
\* too, with the same recipient and lineItems and the same payment.method,
\* payment.currency and payment.payerAddress; and conversely every input on
\* which handleAmazonPurchase reaches the checkout call is one purchaseProduct
\* accepts.
C17_CallSitesAgree ==
    /\ PurchaseProductAcceptsUsAddresses
    /\ HandleAmazonPurchaseFollows
    /\ (fn = "handleAmazonPurchase" /\ BuyTokenCount >= 1) => UsAddress

=============================================================================
